---------------------------- MODULE Spec2Model ----------------------------
(***************************************************************************)
(* Model of src/src/screen_recorder.cc: the process-wide Recorder          *)
(* (g_recorder), its atomic frame counter, and the three exported          *)
(* operations getNextFrame, getFramesCount and getScreenDimensions, for    *)
(* the three build variants of the capture routine:                        *)
(*   "A"  _WIN32    (GDI device contexts and a bitmap),                    *)
(*   "B"  __APPLE__ (CoreGraphics image and data reference),               *)
(*   "C"  otherwise (Xlib display connection and XImage).                  *)
(* Several callers (threads of the host's pool) may be inside an operation *)
(* at once; each statement group of the source is one atomic step.         *)
(***************************************************************************)
EXTENDS Integers, Sequences, FiniteSets

\* ----------------------------------------------------------------- bounds
NumThreads == 2      \* concurrent callers
MaxDim     == 2      \* display width and height range over 1..MaxDim
MaxCalls   == 3      \* calls started one by one in a behaviour
MaxChanges == 1      \* resolution changes in a behaviour

\* ------------------------------------------------------ program constants
IntMax     == 2147483647     \* largest value of the int in std::atomic<int>
BitCount   == 24             \* bi.biBitCount
IntMin     == (-IntMax) - 1

Threads   == 1..NumThreads
DimValues == 1..MaxDim
Byte      == 0..255

VARIABLES
    variant,      \* which capture routine the build selected
    visual,       \* red/green/blue masks of the images the X server returns
    dispW, dispH, \* the primary display's current size (the environment)
    nChanges,     \* resolution changes so far
    frames_count, \* Recorder::frames_count_
    peak,         \* the largest value frames_count_ has had so far
    aged,         \* TRUE once the long run of captures has been taken
    nCalls,       \* calls started one by one so far
    nSucceeded,   \* getNextFrame calls returned after a successful capture
                  \* (the long run not included)
    nFailed,      \* getNextFrame calls returned after a failed capture
    pc,           \* per caller: position inside the operation
    op,           \* per caller: the operation it is in (or was last in)
    dimensions,   \* per caller: the ScreenDimensions local
    held,         \* per caller: native handles acquired and not yet released
    healthy,      \* per caller: no native call of this operation has failed
    incremented,  \* per caller: this call has run IncrementFrameCount
    frame_data,   \* per caller: the frame_data vector / returned buffer
    wlog,         \* per caller: how often each index of frame_data was
                  \* written by the decode loop, and whether a write fell
                  \* outside the vector
    result        \* per caller: the value getFramesCount returned

vars == <<variant, visual, dispW, dispH, nChanges, frames_count, peak, aged,
          nCalls, nSucceeded, nFailed, pc, op, dimensions, held, healthy,
          incremented, frame_data, wlog, result>>

\* ------------------------------------------------------------- arithmetic
RECURSIVE BitAnd(_, _)
BitAnd(a, b) ==
    IF a = 0 \/ b = 0 THEN 0
    ELSE (a % 2) * (b % 2) + 2 * BitAnd(a \div 2, b \div 2)

RECURSIVE Pow2(_)
Pow2(n) == IF n = 0 THEN 1 ELSE 2 * Pow2(n - 1)

ShiftRight(a, n) == a \div Pow2(n)

\* conversion of an unsigned long to uint8_t on assignment
ToUint8(v) == v % 256

\* a + 1 in a two's-complement int (atomic arithmetic wraps)
IncInt(a) == IF a = IntMax THEN IntMin ELSE a + 1

Zeros(n) == [i \in 1..n |-> 0]
Filled(n, b) == [i \in 1..n |-> b]

\* ------------------------------------------------------------ environment
RGB888 == [red_mask |-> 16711680, green_mask |-> 65280, blue_mask |-> 255]
BGR888 == [red_mask |-> 255, green_mask |-> 65280, blue_mask |-> 16711680]
RGB565 == [red_mask |-> 63488, green_mask |-> 2016, blue_mask |-> 31]
Visuals == {RGB888, BGR888, RGB565}

\* packed pixel values found on the screen
PixelSamples == <<16711680, 65280, 255, 1193046>>

\* the packed pixel at column x, row y of the screen (row 0 is the top row)
ScreenPixel(x, y) == PixelSamples[((x + 2 * y) % Len(PixelSamples)) + 1]

Variants == {"A", "B", "C"}
NoDims == [width |-> 0, height |-> 0]
NoLog  == [count |-> <<>>, oob |-> FALSE]
NoResult == -1
GarbageBytes == {0, 255}

Crashed == \E t \in Threads : pc[t] = "crashed"


\* --------------------------------------------- Recorder: pure computations
\* what the operating system reports for the primary display
ScreenNow == [width |-> dispW, height |-> dispH]

\* DWORD dwBmpSize = ((width * biBitCount + 31) / 32) * 4 * height
BmpSize(w, h) == (((w * BitCount + 31) \div 32) * 4) * h

\* GetDIBits, 24 bits per pixel BI_RGB, negative height: rows top-down, each
\* pixel as blue, green, red, each row padded with zero bytes to BmpSize(w, 1)
DIBits(w, h) ==
    LET stride == BmpSize(w, 1)
    IN  [i \in 1..BmpSize(w, h) |->
            LET y == (i - 1) \div stride
                o == (i - 1) % stride
                p == ScreenPixel(o \div 3, y)
            IN  IF o >= 3 * w THEN 0
                ELSE ShiftRight(p, 8 * (o % 3)) % 256]

\* the bytes behind CGDataProviderCopyData: the native image of the display
\* as it is at the time of the capture, four bytes per pixel (B, G, R, 255)
NativeImageBytes ==
    [i \in 1..(dispW * 4 * dispH) |->
        LET n == (i - 1) \div 4
            c == (i - 1) % 4
            p == ScreenPixel(n % dispW, n \div dispW)
        IN  IF c = 3 THEN 255 ELSE ShiftRight(p, 8 * c) % 256]

\* XGetPixel(ximage, x, y): the image is the screen at the time of XGetImage
XGetPixel(x, y) == ScreenPixel(x, y)

\* int index = (y * dimensions.width + x) * 3
PixelIndexByHeight(d, x, y) == (y * d.height + x) * 3
PixelIndex(d, x, y) == (y * d.width + x) * 3

\* frame_data[index] = (pixel & ximage->red_mask) >> 16
RedByte(pixel) == ToUint8(ShiftRight(BitAnd(pixel, visual.red_mask), 16))
\* frame_data[index+1] = (pixel & ximage->green_mask) >> 8
GreenByte(pixel) == ToUint8(ShiftRight(BitAnd(pixel, visual.green_mask), 8))
\* frame_data[index+2] = pixel & ximage->blue_mask
BlueByte(pixel) == ToUint8(BitAnd(pixel, visual.blue_mask))

\* frame_data[i] = v of the decode loop, with the bookkeeping of the write
Store(st, i, v) ==
    IF i \in 0..(Len(st.data) - 1)
    THEN [data  |-> [st.data EXCEPT ![i + 1] = v],
          count |-> [st.count EXCEPT ![i + 1] = @ + 1],
          oob   |-> st.oob]
    ELSE [st EXCEPT !.oob = TRUE]

\* the nested loops: for y in 0..height-1, for x in 0..width-1
RECURSIVE DecodeLoop(_, _, _, _)
DecodeLoop(d, x, y, st) ==
    IF y >= d.height THEN st
    ELSE IF x >= d.width THEN DecodeLoop(d, 0, y + 1, st)
    ELSE LET pixel == XGetPixel(x, y)
             index == PixelIndex(d, x, y)
             s1 == Store(st, index, RedByte(pixel))
             s2 == Store(s1, index + 1, GreenByte(pixel))
             s3 == Store(s2, index + 2, BlueByte(pixel))
         IN  DecodeLoop(d, x + 1, y, s3)

\* frame_data.resize(width * height * 3), then the decode loop
DecodeImage(d) ==
    LET size == d.width * d.height * 3
    IN  DecodeLoop(d, 0, 0,
                   [data |-> Zeros(size), count |-> Zeros(size), oob |-> FALSE])

\* ------------------------------------------------------------------- Init
\* Recorder() : frames_count_(0); no call has started
Init ==
    /\ variant \in Variants
    /\ visual \in (IF variant = "C" THEN Visuals ELSE {RGB888})
    /\ dispW \in DimValues
    /\ dispH \in DimValues
    /\ nChanges = 0
    /\ frames_count = 0
    /\ peak = 0
    /\ aged = FALSE
    /\ nCalls = 0
    /\ nSucceeded = 0
    /\ nFailed = 0
    /\ pc = [t \in Threads |-> "idle"]
    /\ op = [t \in Threads |-> "none"]
    /\ dimensions = [t \in Threads |-> NoDims]
    /\ held = [t \in Threads |-> {}]
    /\ healthy = [t \in Threads |-> TRUE]
    /\ incremented = [t \in Threads |-> FALSE]
    /\ frame_data = [t \in Threads |-> <<>>]
    /\ wlog = [t \in Threads |-> NoLog]
    /\ result = [t \in Threads |-> NoResult]

env == <<variant, visual, dispW, dispH, nChanges>>
tally == <<aged, nCalls, nSucceeded, nFailed>>
counter == <<frames_count, peak>>
locals == <<dimensions, healthy, incremented, frame_data, wlog, result>>

\* --------------------------------------------------------- entering a call
Enter(t, o, first) ==
    /\ ~Crashed
    /\ pc[t] = "idle"
    /\ nCalls < MaxCalls
    /\ nCalls' = nCalls + 1
    /\ op' = [op EXCEPT ![t] = o]
    /\ pc' = [pc EXCEPT ![t] = first]
    /\ UNCHANGED <<env, counter, aged, nSucceeded, nFailed, held, locals>>

\* the host calls getNextFrame: GetNextFrame, then CaptureFrame
CallGetNextFrame(t) == Enter(t, "getNextFrame", "query")

\* the host calls getScreenDimensions
CallGetScreenDimensions(t) == Enter(t, "getScreenDimensions", "query")

\* the host calls getFramesCount
CallGetFramesCount(t) == Enter(t, "getFramesCount", "read")

\* where a caller goes when Recorder::GetScreenDimensions has returned
AfterQuery(t) == IF op[t] = "getNextFrame" THEN "capture" ELSE "return"

\* --------------------------------------------- Recorder::GetScreenDimensions
\* Variants A and B: GetSystemMetrics / CGDisplayBounds, no handle involved
QueryMetrics(t) ==
    /\ ~Crashed
    /\ pc[t] = "query"
    /\ variant \in {"A", "B"}
    /\ dimensions' = [dimensions EXCEPT ![t] = ScreenNow]
    /\ pc' = [pc EXCEPT ![t] = AfterQuery(t)]
    /\ UNCHANGED <<env, tally, counter, op, held, healthy, incremented,
                   frame_data, wlog, result>>

\* XCloseDisplay(display) at the end of the query
CloseQueryDisplayForgotten(hs) == hs
CloseQueryDisplay(hs) == hs \ {"display"}

\* Variant C: XOpenDisplay(NULL), DefaultScreenOfDisplay, screen->width,
\* screen->height, XCloseDisplay. XOpenDisplay may return NULL, and the
\* statements after it then dereference a null pointer: the process faults,
\* or the call goes on with indeterminate dimensions.
QueryDisplay(t) ==
    /\ ~Crashed
    /\ pc[t] = "query"
    /\ variant = "C"
    /\ \E got \in BOOLEAN :
          IF got
          THEN /\ dimensions' = [dimensions EXCEPT ![t] = ScreenNow]
               /\ held' = [held EXCEPT
                              ![t] = CloseQueryDisplay(@ \cup {"display"})]
               /\ pc' = [pc EXCEPT ![t] = AfterQuery(t)]
               /\ UNCHANGED healthy
          ELSE /\ healthy' = [healthy EXCEPT ![t] = FALSE]
               /\ UNCHANGED held
               /\ \/ /\ pc' = [pc EXCEPT ![t] = "crashed"]
                     /\ UNCHANGED dimensions
                  \/ /\ \E w \in DimValues, h \in DimValues :
                           dimensions' = [dimensions EXCEPT
                                             ![t] = [width |-> w, height |-> h]]
                     /\ pc' = [pc EXCEPT ![t] = AfterQuery(t)]
    /\ UNCHANGED <<env, tally, counter, op, incremented, frame_data, wlog,
                   result>>

\* ---------------------------------------------- Recorder::CaptureScreenFrame
\* the routine ran to its return statement with the handles hs still open
Captured(t, data, log, hs) ==
    /\ frame_data' = [frame_data EXCEPT ![t] = data]
    /\ wlog' = [wlog EXCEPT ![t] = log]
    /\ held' = [held EXCEPT ![t] = hs]
    /\ pc' = [pc EXCEPT ![t] = "increment"]

\* a null pointer was dereferenced and the process died where it stood, the
\* handles hs acquired so far never released
Faulted(t, hs) ==
    /\ pc' = [pc EXCEPT ![t] = "crashed"]
    /\ held' = [held EXCEPT ![t] = hs]
    /\ UNCHANGED <<frame_data, wlog>>

\* SelectObject(hMemoryDC, hOldBitmap), DeleteObject(hBitmap),
\* DeleteDC(hMemoryDC), ReleaseDC(NULL, hScreenDC)
ReleaseA(hs) == hs \ {"hBitmap", "hMemoryDC", "hScreenDC"}
\* CFRelease(dataRef), CGImageRelease(image)
ReleaseB(hs) == hs \ {"dataRef", "image"}
\* XDestroyImage(ximage), XCloseDisplay(display)
ReleaseC(hs) == hs \ {"ximage", "display"}

\* Variant A: GetDC, CreateCompatibleDC, CreateCompatibleBitmap, SelectObject,
\* BitBlt, resize(dwBmpSize), GetDIBits, then the four releases. Each handle
\* may come back NULL; the GDI calls accept NULL handles and fail, GetDIBits
\* then writes nothing and the vector keeps the zero bytes resize gave it.
CaptureA(t) ==
    /\ ~Crashed
    /\ pc[t] = "capture"
    /\ variant = "A"
    /\ \E gotScreen \in BOOLEAN, gotMemory \in BOOLEAN, gotBitmap \in BOOLEAN :
          LET d == dimensions[t]
              hs == held[t] \cup (IF gotScreen THEN {"hScreenDC"} ELSE {})
                            \cup (IF gotMemory THEN {"hMemoryDC"} ELSE {})
                            \cup (IF gotBitmap THEN {"hBitmap"} ELSE {})
              all == gotScreen /\ gotMemory /\ gotBitmap
          IN  /\ gotBitmap => gotScreen
              /\ healthy' = [healthy EXCEPT ![t] = @ /\ all]
              /\ Captured(t, IF all THEN DIBits(d.width, d.height)
                             ELSE Zeros(BmpSize(d.width, d.height)),
                          NoLog, ReleaseA(hs))
    /\ UNCHANGED <<env, tally, counter, op, dimensions, incremented, result>>

\* Variant B: CGDisplayCreateImage, CGDataProviderCopyData, CFDataGetLength,
\* resize, memcpy, CFRelease, CGImageRelease. Either reference may be NULL,
\* and CFDataGetLength then dereferences a null pointer.
CaptureB(t) ==
    /\ ~Crashed
    /\ pc[t] = "capture"
    /\ variant = "B"
    /\ \E gotImage \in BOOLEAN, gotData \in BOOLEAN :
          LET hs == held[t] \cup (IF gotImage THEN {"image"} ELSE {})
                            \cup (IF gotData THEN {"dataRef"} ELSE {})
              all == gotImage /\ gotData
          IN  /\ gotData => gotImage
              /\ healthy' = [healthy EXCEPT ![t] = @ /\ all]
              /\ IF all
                 THEN Captured(t, NativeImageBytes, NoLog, ReleaseB(hs))
                 ELSE \/ Faulted(t, hs)
                      \/ \E n \in 0..1, g \in GarbageBytes :
                            Captured(t, Filled(4 * n, g), NoLog, ReleaseB(hs))
    /\ UNCHANGED <<env, tally, counter, op, dimensions, incremented, result>>

\* Variant C: XOpenDisplay, DefaultRootWindow, XGetWindowAttributes, XGetImage,
\* ximage->bits_per_pixel, resize(width * height * 3), the decode loop,
\* XDestroyImage, XCloseDisplay. The display or the image may be NULL, and
\* the statements after it then dereference a null pointer.
CaptureC(t) ==
    /\ ~Crashed
    /\ pc[t] = "capture"
    /\ variant = "C"
    /\ \E gotDisplay \in BOOLEAN, gotImage \in BOOLEAN :
          LET d == dimensions[t]
              size == d.width * d.height * 3
              hs == held[t] \cup (IF gotDisplay THEN {"display"} ELSE {})
                            \cup (IF gotImage THEN {"ximage"} ELSE {})
              all == gotDisplay /\ gotImage
          IN  /\ gotImage => gotDisplay
              /\ healthy' = [healthy EXCEPT ![t] = @ /\ all]
              /\ IF all
                 THEN LET st == DecodeImage(d)
                      IN  Captured(t, st.data,
                                   [count |-> st.count, oob |-> st.oob],
                                   ReleaseC(hs))
                 ELSE \/ Faulted(t, hs)
                      \/ \E g \in GarbageBytes :
                            Captured(t, Filled(size, g),
                                     [count |-> Zeros(size), oob |-> FALSE],
                                     ReleaseC(hs))
    /\ UNCHANGED <<env, tally, counter, op, dimensions, incremented, result>>

\* ------------------------------------------------------------ GetNextFrame
\* g_recorder.IncrementFrameCount(): frames_count_++ on std::atomic<int>,
\* one indivisible fetch-and-add
IncrementFrameCount(t) ==
    /\ ~Crashed
    /\ pc[t] = "increment"
    /\ frames_count' = IncInt(frames_count)
    /\ peak' = IF frames_count' > peak THEN frames_count' ELSE peak
    /\ incremented' = [incremented EXCEPT ![t] = TRUE]
    /\ pc' = [pc EXCEPT ![t] = "return"]
    /\ UNCHANGED <<env, tally, op, dimensions, held, healthy, frame_data, wlog,
                   result>>

\* args.GetReturnValue().Set(...) and the end of the handler: the caller has
\* the value (the buffer, the dimensions or the count) and the handler's
\* locals are gone
Return(t) ==
    /\ ~Crashed
    /\ pc[t] = "return"
    /\ pc' = [pc EXCEPT ![t] = "idle"]
    /\ op' = [op EXCEPT ![t] = "none"]
    /\ nSucceeded' = IF op[t] = "getNextFrame" /\ healthy[t]
                     THEN nSucceeded + 1 ELSE nSucceeded
    /\ nFailed' = IF op[t] = "getNextFrame" /\ ~healthy[t]
                  THEN nFailed + 1 ELSE nFailed
    /\ dimensions' = [dimensions EXCEPT ![t] = NoDims]
    /\ healthy' = [healthy EXCEPT ![t] = TRUE]
    /\ incremented' = [incremented EXCEPT ![t] = FALSE]
    /\ frame_data' = [frame_data EXCEPT ![t] = <<>>]
    /\ wlog' = [wlog EXCEPT ![t] = NoLog]
    /\ result' = [result EXCEPT ![t] = NoResult]
    /\ UNCHANGED <<env, aged, nCalls, counter, held>>

\* ---------------------------------------------------------- GetFramesCount
\* int frames_count = g_recorder.GetFramesCount(): an atomic load
ReadFramesCount(t) ==
    /\ ~Crashed
    /\ pc[t] = "read"
    /\ result' = [result EXCEPT ![t] = frames_count]
    /\ pc' = [pc EXCEPT ![t] = "return"]
    /\ UNCHANGED <<env, tally, counter, op, dimensions, held, healthy,
                   incremented, frame_data, wlog>>

\* ------------------------------------------------------------- environment
\* the user changes the resolution of the primary display
DisplayChange ==
    /\ ~Crashed
    /\ nChanges < MaxChanges
    /\ nChanges' = nChanges + 1
    /\ \E w \in DimValues, h \in DimValues :
          /\ <<w, h>> # <<dispW, dispH>>
          /\ dispW' = w
          /\ dispH' = h
    /\ UNCHANGED <<variant, visual, tally, counter, pc, op, held, locals>>

\* LongRun getNextFrame calls made one after the other by caller t, every one
\* of them capturing successfully and returning, taken as one step: the
\* counter has been incremented LongRun times, without wrapping, and t is
\* idle again.
LongRun == IntMax - 1
RunCaptures(t) ==
    /\ ~Crashed
    /\ pc[t] = "idle"
    /\ ~aged
    /\ frames_count >= 0
    /\ frames_count <= IntMax - LongRun
    /\ aged' = TRUE
    /\ frames_count' = frames_count + LongRun
    /\ peak' = frames_count'
    /\ UNCHANGED <<env, nCalls, nSucceeded, nFailed, pc, op, held, locals>>

Next ==
    \/ \E t \in Threads : CallGetNextFrame(t)
    \/ \E t \in Threads : CallGetScreenDimensions(t)
    \/ \E t \in Threads : CallGetFramesCount(t)
    \/ \E t \in Threads : QueryMetrics(t)
    \/ \E t \in Threads : QueryDisplay(t)
    \/ \E t \in Threads : CaptureA(t)
    \/ \E t \in Threads : CaptureB(t)
    \/ \E t \in Threads : CaptureC(t)
    \/ \E t \in Threads : IncrementFrameCount(t)
    \/ \E t \in Threads : Return(t)
    \/ \E t \in Threads : ReadFramesCount(t)
    \/ \E t \in Threads : RunCaptures(t)
    \/ DisplayChange

Spec == Init /\ [][Next]_vars

\* one caller at a time: every call returns before the next one starts
NextSolo ==
    \/ \E t \in {1} : CallGetNextFrame(t)
    \/ \E t \in {1} : CallGetScreenDimensions(t)
    \/ \E t \in {1} : CallGetFramesCount(t)
    \/ \E t \in {1} : QueryMetrics(t)
    \/ \E t \in {1} : QueryDisplay(t)
    \/ \E t \in {1} : CaptureA(t)
    \/ \E t \in {1} : CaptureB(t)
    \/ \E t \in {1} : CaptureC(t)
    \/ \E t \in {1} : IncrementFrameCount(t)
    \/ \E t \in {1} : Return(t)
    \/ \E t \in {1} : ReadFramesCount(t)
    \/ \E t \in {1} : RunCaptures(t)
    \/ DisplayChange

SpecSolo == Init /\ [][NextSolo]_vars

TypeOK ==
    /\ variant \in Variants
    /\ visual \in Visuals
    /\ dispW \in DimValues /\ dispH \in DimValues
    /\ frames_count \in IntMin..IntMax
    /\ peak \in 0..IntMax
    /\ aged \in BOOLEAN
    /\ nCalls \in 0..MaxCalls
    /\ \A t \in Threads :
          /\ pc[t] \in {"idle", "query", "capture", "increment", "return",
                        "read", "crashed"}
          /\ op[t] \in {"none", "getNextFrame", "getScreenDimensions",
                        "getFramesCount"}
          /\ healthy[t] \in BOOLEAN
          /\ \A i \in DOMAIN frame_data[t] : frame_data[t][i] \in Byte

\* ================================================================= claims
AllReturned == \A t \in Threads : pc[t] = "idle"

\* the counter equals the number of getNextFrame calls that have returned
\* after a successful capture, the LongRun successful calls of RunCaptures
\* included; a sum above IntMax is no value of the counter
CountIsSuccesses ==
    IF aged
    THEN nSucceeded <= IntMax - LongRun /\ frames_count = LongRun + nSucceeded
    ELSE frames_count = nSucceeded

\* a getNextFrame call of caller t has finished its capture
CaptureDone(t) ==
    op[t] = "getNextFrame" /\ pc[t] \in {"increment", "return"}

\* the reference decoder of a channel: mask, then shift by the position of
\* the mask's lowest set bit, then keep the low eight bits
RECURSIVE LowBit(_)
LowBit(m) == IF m % 2 = 1 THEN 0 ELSE 1 + LowBit(m \div 2)
RefChannel(pixel, mask) ==
    ToUint8(ShiftRight(BitAnd(pixel, mask), LowBit(mask)))

\* C1: once all concurrently running getNextFrame calls have returned, the
\* counter has grown by exactly the number of calls whose capture succeeded.
C1_ConcurrentCountExact == AllReturned => CountIsSuccesses

\* Supporting invariant (atomicity of the increment): no increment is lost
\* and none is counted twice. In the arithmetic of the int, the counter is
\* the number of getNextFrame calls that are past IncrementFrameCount,
\* whether their capture succeeded or not.
IncrementsAreAtomic ==
    LET base == IF aged THEN LongRun ELSE 0
        k == nSucceeded + nFailed
             + Cardinality({t \in Threads : incremented[t]})
    IN  frames_count = IF k <= IntMax - base
                       THEN base + k
                       ELSE IntMin + ((k - (IntMax - base)) - 1)

\* C2: after any sequence of successful getNextFrame calls, with no failed
\* call among them and any number of queries in between, the counter equals
\* its value at process start (zero) plus the number of those calls.
C2_SequentialCountExact == (AllReturned /\ nFailed = 0) => CountIsSuccesses

\* C3: a getNextFrame call whose capture failed has not incremented the
\* counter and hands no buffer to its caller.
C3_FailureLeavesNoTrace ==
    \A t \in Threads :
        (op[t] = "getNextFrame" /\ ~healthy[t]) =>
            /\ ~incremented[t]
            /\ pc[t] # "return"

\* C4: a call that could not obtain a native handle ends in one of the three
\* error outcomes; it never goes on without the handle and never crashes.
ErrorOutcomes ==
    {"DisplayQueryFailed", "CaptureUnavailable", "ResourceAcquisitionFailed"}
C4_MissingHandleIsAnError ==
    \A t \in Threads :
        /\ pc[t] # "crashed"
        /\ ~healthy[t] => pc[t] \in ErrorOutcomes

\* C5: whenever a caller is not inside the capture routine (it is idle, past
\* the routine, or the routine ended on a failure), it holds no native handle.
C5_HandlesReleased ==
    \A t \in Threads :
        pc[t] \in {"idle", "increment", "return", "crashed"} => held[t] = {}

C7_IncrementAfterSuccessfulCapture ==
    \A t \in Threads :
        /\ incremented[t] =>
              /\ healthy[t]
              /\ dimensions[t] # NoDims
              /\ pc[t] = "return"
        /\ (op[t] = "getNextFrame" /\ pc[t] = "return") => incremented[t]

\* C8: the counter is never negative and never below a value it had before.
C8_CounterMonotone == frames_count >= 0 /\ frames_count = peak

\* C9: after a successful capture the buffer length is
\* ((width*24+31)/32)*4*height in Variant A and width*height*3 in Variant C,
\* width and height being those of the call's display query; in Variant C no
\* write fell outside the buffer and every index was written exactly once.
C9_BufferLengthAndIndexing ==
    \A t \in Threads :
        (CaptureDone(t) /\ healthy[t]) =>
            LET w == dimensions[t].width
                h == dimensions[t].height
            IN  /\ variant = "A" =>
                      Len(frame_data[t]) = (((w * 24 + 31) \div 32) * 4) * h
                /\ variant = "C" =>
                      /\ Len(frame_data[t]) = w * h * 3
                      /\ ~wlog[t].oob
                      /\ Len(wlog[t].count) = w * h * 3
                      /\ \A i \in 1..(w * h * 3) : wlog[t].count[i] = 1

\* C9 witness: the X build has captured a display at least two pixels wide
\* and two pixels high.
C9_Witness ==
    \E t \in Threads :
        /\ variant = "C"
        /\ CaptureDone(t)
        /\ healthy[t]
        /\ dimensions[t].width >= 2
        /\ dimensions[t].height >= 2
        /\ Len(frame_data[t]) >= 12

\* C10: in Variant C, whatever masks the image reports, the three bytes of
\* pixel (x, y) are its red, green and blue components as the reference
\* decoder gives them, rows top-down from the top-left pixel.
C10_DecodeMatchesReference ==
    \A t \in Threads :
        (variant = "C" /\ CaptureDone(t) /\ healthy[t]) =>
            LET w == dimensions[t].width
                h == dimensions[t].height
            IN  \A x \in 0..(w - 1), y \in 0..(h - 1) :
                    LET i == (y * w + x) * 3
                        pixel == XGetPixel(x, y)
                    IN  /\ frame_data[t][i + 1] = RefChannel(pixel, visual.red_mask)
                        /\ frame_data[t][i + 2] = RefChannel(pixel, visual.green_mask)
                        /\ frame_data[t][i + 3] = RefChannel(pixel, visual.blue_mask)

=============================================================================
